---------------------------- MODULE Spec2Model ----------------------------
(***************************************************************************)
(* Currency conversion scripts: the daily flow (src/ccr_test.py) and the   *)
(* month-block flow (src/new_ccr.py).                                      *)
(*                                                                         *)
(* Quotes ("units of a currency per 1 USD") are non-negative integers.     *)
(* Conversion rates ("USD per 1 unit") are integers counted in millionths, *)
(* the six decimals the daily flow rounds to.  Python's None is the        *)
(* number None; a key that a dict does not hold is simply outside the      *)
(* DOMAIN of the function modelling the dict.                              *)
(***************************************************************************)
EXTENDS Integers, Sequences, FiniteSets, TLC

VARIABLES
    flow,       \* which script runs: "daily", "month" or "store"
    pc,         \* position of the running script
    dates,      \* collect_for_dates: the dates to resolve (day numbers)
    di,         \* collect_for_dates: index of the date being resolved
    xr,         \* fetch_usd_quotes_for_date: what _from_xrates did
    eh,         \* fetch_usd_quotes_for_date: what _from_exchangerate_host did
    fk,         \* fetch_usd_quotes_for_date: what _from_frankfurter did
    calls,      \* adapters called for the current date, in call order
    rates,      \* the dict `rates` being filled by the resolver
    usd_to,     \* the map the resolver returned to its caller
    rows,       \* the rows built last
    all_rows,   \* collect_for_dates: rows accumulated over the dates
    exc,        \* the exception that ended the script, or "none"
    page,       \* month flow: what the provider page yielded
    csv,        \* the working CSV file
    xlsx,       \* the working XLSX file
    archive,    \* the files of the ARCHIVE directory, oldest first
    alts,       \* the timestamped XLSX copies written beside a locked XLSX
    df_new,     \* the batch handed to the last merge
    before,     \* the files, their conditions and the archive as the last
                \* merge found them, and how the merge before it ended
    result,     \* how the last merge ended: "none", "ok" or "raised"
    runs,       \* merges run so far
    log,        \* the lines main (daily flow) has logged in this run
    attempts,   \* _retry_get: its parameter attempts
    expect_json,\* _retry_get: its parameter expect_json
    ri,         \* _retry_get: the loop index i
    tries,      \* _retry_get: how each request made so far ended
    sleeps,     \* _retry_get: the whole seconds of each time.sleep so far
    raised      \* _retry_get: the exception it raised, if any

rateVars == <<dates, di, xr, eh, fk, calls, rates, usd_to, rows, all_rows,
              exc, page>>

storeVars == <<csv, xlsx, archive, alts, df_new, before, result, runs, log>>

retryVars == <<attempts, expect_json, ri, tries, sleeps, raised>>

vars == <<flow, pc, rateVars, storeVars, retryVars>>

-----------------------------------------------------------------------------
(* Bounds *)

\* collect_for_dates is run over 1..MaxDates consecutive days
MaxDates == 2

-----------------------------------------------------------------------------
(* Configuration *)

None == -1

\* model-only marker for "the adapter's dict has no such key"
Absent == -2

\* 1.0 in millionths
Micro == 1000000

BASE_CCY == "USD"

CURRENCIES ==
    <<"USD", "ARS", "AUD", "BRL", "CAD", "CLP", "CNY", "AED", "EUR", "MXN",
      "NZD", "PAB", "GBP">>

Tracked == {CURRENCIES[i] : i \in 1..Len(CURRENCIES)}

COUNTRY_MAP ==
    [USD |-> <<"UNITED STATES", "USA">>, ARS |-> <<"ARGENTINA", "ARG">>,
     AUD |-> <<"AUSTRALIA", "AUS">>,     BRL |-> <<"BRASIL", "BRA">>,
     CAD |-> <<"CANADA", "CAN">>,        CLP |-> <<"CHILE", "CHL">>,
     CNY |-> <<"CHINA", "CHN">>,         AED |-> <<"DUBAI", "UAE">>,
     EUR |-> <<"EUROPE", "EUR">>,        MXN |-> <<"MEXICO", "MEX">>,
     NZD |-> <<"NEW ZEALAND", "NZ">>,    PAB |-> <<"PANAMA", "PAN">>,
     GBP |-> <<"UNITED KINGDOM", "UK">>]

\* date.isoformat() of the days from BACKFILL_START_DATE on
IsoDate == <<"2023-01-01", "2023-01-02", "2023-01-03", "2023-01-04">>

\* as_of.year and as_of.strftime("%B") of those days
YearOf(d) == 2023
MonthNameOf(d) == "January"

EmptyMap == [k \in {} |-> None]

\* d[k] = v on a dict
Put(d, k, v) == [x \in DOMAIN d \cup {k} |-> IF x = k THEN v ELSE d[x]]

\* d.setdefault(k, v)
SetDefault(d, k, v) == IF k \in DOMAIN d THEN d ELSE Put(d, k, v)

\* {k: float(v) for k, v in d.items() if v is not None}
NonNull(d) == [k \in {x \in DOMAIN d : d[x] # None} |-> d[k]]

-----------------------------------------------------------------------------
(* Adapter responses (the environment of the resolver) *)

\* The currencies whose entry in a response varies on its own; the other
\* tracked currencies are supplied, or left out, together.
Focus == {"USD", "PAB", "GBP"}
Rest == Tracked \ Focus

\* the quote each adapter gives for a currency it quotes
QuoteOf == [xrates |-> 2, exchangerate_host |-> 3, frankfurter |-> 6]

\* What an adapter's dict may hold for a focus currency.  _from_xrates
\* stores only float(...) results, so never None; the JSON adapters pass
\* the payload's "rates" object on, null entries included.
EntryOptions(a, k) ==
    LET nulls == IF a = "xrates" THEN {} ELSE {None}
        zero  == IF k = "GBP" THEN {0} ELSE {}
    IN  {Absent, QuoteOf[a]} \cup zero \cup (IF k = "USD" THEN {} ELSE nulls)

MkMap(f) == [k \in {x \in DOMAIN f : f[x] # Absent} |-> f[k]]

Responses(a) ==
    { MkMap([k \in Tracked |-> IF k \in Focus THEN c[k] ELSE r]) :
        c \in {g \in [Focus -> {Absent, None, 0, QuoteOf[a]}] :
                 \A k \in Focus : g[k] \in EntryOptions(a, k)},
        r \in {Absent, QuoteOf[a]} }

NotCalled == [status |-> "not_called", val |-> EmptyMap]
Returned(m) == [status |-> "returned", val |-> m]
Raised == [status |-> "raised", val |-> EmptyMap]

\* _from_xrates: the parsed table rows, or an exception (_retry_get ran out
\* of attempts, or read_html found no table)
XratesOutcomes == {Returned(m) : m \in Responses("xrates")} \cup {Raised}

\* _from_exchangerate_host: data.get("rates") or {}, or an exception
ExchangerateHostOutcomes ==
    {Returned(m) : m \in Responses("exchangerate_host")} \cup {Raised}

\* _from_frankfurter: data.get("rates") or {}, or an exception
FrankfurterOutcomes ==
    {Returned(m) : m \in Responses("frankfurter")} \cup {Raised}

-----------------------------------------------------------------------------
(* _retry_get *)

\* _retry_get is called with 1..MaxAttempts attempts
MaxAttempts == 3

\* how one pass through the try block can fail: SESSION.get raises, the
\* response is not JSON (ValueError), or r.json() cannot decode it
Failures(json) ==
    {"ConnectionError", "Timeout"}
      \cup (IF json THEN {"ValueError", "JSONDecodeError"} ELSE {})

NoError == [type |-> "none", cause |-> "none"]

\* raise RuntimeError(f"All retries failed for {url}"): raised after the
\* loop, outside every handler, so neither __cause__ nor __context__ is set
\* and the message names the url only
AllRetriesFailed == [type |-> "RuntimeError", cause |-> "none"]

\* 2 ** i
RECURSIVE Pow2(_)
Pow2(i) == IF i = 0 THEN 1 ELSE 2 * Pow2(i - 1)

\* one pass of the loop: the request, and on an exception the wait
\* (2 ** i) + random.random(), of which the whole seconds are kept
RetryAttempt ==
    /\ flow = "retry"
    /\ pc = "retry_loop"
    /\ ri < attempts
    /\ \E out \in {"ok"} \cup Failures(expect_json) :
        /\ tries' = Append(tries, out)
        /\ IF out = "ok"
           THEN pc' = "retry_returned" /\ UNCHANGED <<ri, sleeps>>
           ELSE /\ sleeps' = Append(sleeps, Pow2(ri))
                /\ ri' = ri + 1
                /\ pc' = pc
    /\ UNCHANGED <<flow, attempts, expect_json, raised, rateVars, storeVars>>

\* the loop is over without a return
RetryExhausted ==
    /\ flow = "retry"
    /\ pc = "retry_loop"
    /\ ri = attempts
    /\ raised' = AllRetriesFailed
    /\ pc' = "retry_raised"
    /\ UNCHANGED <<flow, attempts, expect_json, ri, tries, sleeps, rateVars,
                   storeVars>>

-----------------------------------------------------------------------------
(* fetch_usd_quotes_for_date *)

\* mutant: USD is not taken out of the required set
RequiredWithUsd == Tracked

\* required = set(CURRENCIES) - {"USD"}
Required == Tracked \ {"USD"}

\* required.issubset(set(k for k in xr if xr[k] is not None))
XrHasAll(m) == Required \subseteq {k \in DOMAIN m : m[k] # None}

\* mutant: every later adapter is asked for the whole required set
MissingIsRequired(r) == Required

\* missing = required - set(rates.keys())
Missing(r) == Required \ DOMAIN r

\* mutant: the merge lacks "k not in rates", the later adapter wins
MergeOverwriting(r, resp) ==
    [k \in DOMAIN r \cup {x \in DOMAIN resp : resp[x] # None} |->
        IF k \in DOMAIN resp /\ resp[k] # None THEN resp[k] ELSE r[k]]

\* for k, v in (resp or {}).items():
\*     if v is not None and k not in rates: rates[k] = float(v)
MergeInto(r, resp) ==
    [k \in DOMAIN r \cup {x \in DOMAIN resp : resp[x] # None} |->
        IF k \in DOMAIN r THEN r[k] ELSE resp[k]]

Call(a, needed) == [adapter |-> a, needed |-> needed]

\* xr = _from_xrates(as_of); an exception leaves the function (no handler)
CallXrates ==
    /\ flow = "daily"
    /\ pc = "fetch_xrates"
    /\ \E out \in XratesOutcomes :
        /\ xr' = out
        /\ eh' = NotCalled
        /\ fk' = NotCalled
        /\ calls' = <<Call("xrates", {})>>
        /\ usd_to' = EmptyMap
        /\ IF out.status = "raised"
           THEN /\ rates' = EmptyMap
                /\ pc' = "raised"
                /\ exc' = "RuntimeError"
           ELSE /\ rates' = NonNull(out.val)
                /\ exc' = exc
                /\ pc' = IF XrHasAll(out.val) THEN "fetch_ensure"
                         ELSE IF Missing(NonNull(out.val)) # {}
                              THEN "fetch_eh" ELSE "fetch_ensure"
    /\ UNCHANGED <<storeVars, retryVars>>
    /\ UNCHANGED <<flow, dates, di, rows, all_rows, page>>

\* eh = _from_exchangerate_host(as_of, missing), merged into rates
CallExchangerateHost ==
    /\ flow = "daily"
    /\ pc = "fetch_eh"
    /\ \E out \in ExchangerateHostOutcomes :
        /\ eh' = out
        /\ calls' = Append(calls, Call("exchangerate_host", Missing(rates)))
        /\ IF out.status = "raised"
           THEN /\ rates' = rates
                /\ pc' = "raised"
                /\ exc' = "RuntimeError"
           ELSE /\ rates' = MergeInto(rates, out.val)
                /\ exc' = exc
                /\ pc' = IF Missing(MergeInto(rates, out.val)) # {}
                         THEN "fetch_fk" ELSE "fetch_ensure"
    /\ UNCHANGED <<storeVars, retryVars>>
    /\ UNCHANGED <<flow, dates, di, xr, fk, usd_to, rows, all_rows, page>>

\* fk = _from_frankfurter(as_of, missing), merged into rates
CallFrankfurter ==
    /\ flow = "daily"
    /\ pc = "fetch_fk"
    /\ \E out \in FrankfurterOutcomes :
        /\ fk' = out
        /\ calls' = Append(calls, Call("frankfurter", Missing(rates)))
        /\ IF out.status = "raised"
           THEN /\ rates' = rates
                /\ pc' = "raised"
                /\ exc' = "RuntimeError"
           ELSE /\ rates' = MergeInto(rates, out.val)
                /\ exc' = exc
                /\ pc' = "fetch_ensure"
    /\ UNCHANGED <<storeVars, retryVars>>
    /\ UNCHANGED <<flow, dates, di, xr, eh, usd_to, rows, all_rows, page>>

\* mutant: USD is only defaulted, like PAB
EnsureByDefault(r) == SetDefault(SetDefault(r, "USD", 1), "PAB", 1)

\* rates["USD"] = 1.0; rates.setdefault("PAB", 1.0)
EnsureUsdPab(r) == SetDefault(Put(r, "USD", 1), "PAB", 1)

\* the end of fetch_usd_quotes_for_date: ensure USD & PAB, return rates
FetchReturn ==
    /\ flow = "daily"
    /\ pc = "fetch_ensure"
    /\ rates' = EnsureUsdPab(rates)
    /\ usd_to' = EnsureUsdPab(rates)
    /\ pc' = "build"
    /\ UNCHANGED <<storeVars, retryVars>>
    /\ UNCHANGED <<flow, dates, di, xr, eh, fk, calls, rows, all_rows, exc,
                   page>>

-----------------------------------------------------------------------------
(* build_rows_for_date *)

\* n / q rounded to the nearest integer, ties to the even one: round(x, 6)
\* on a value counted in millionths
RoundDiv(n, q) ==
    LET f == n \div q
        twice == 2 * (n % q)
    IN  IF twice < q THEN f
        ELSE IF twice > q THEN f + 1
        ELSE IF f % 2 = 0 THEN f ELSE f + 1

\* ccy in usd_to and usd_to[ccy] is not None
HasQuote(m, ccy) == ccy \in DOMAIN m /\ m[ccy] # None

\* 1 / float(usd_to[ccy]) raises ZeroDivisionError on a zero quote
DivisionRaises(m) ==
    \E i \in 1..Len(CURRENCIES) :
        /\ CURRENCIES[i] # "PAB"
        /\ HasQuote(m, CURRENCIES[i])
        /\ m[CURRENCIES[i]] = 0

\* mutant: PAB is inverted like any other currency
DailyConvUnforced(m, ccy) ==
    IF HasQuote(m, ccy) THEN RoundDiv(Micro, m[ccy]) ELSE None

\* conv of one currency
DailyConv(m, ccy) ==
    IF ccy = "PAB" THEN Micro
    ELSE IF HasQuote(m, ccy) THEN RoundDiv(Micro, m[ccy]) ELSE None

DailyRow(d, m, ccy) ==
    [conversion_date  |-> IsoDate[d],
     conversion_year  |-> YearOf(d),
     conversion_month |-> MonthNameOf(d),
     country          |-> COUNTRY_MAP[ccy][1],
     country_code     |-> COUNTRY_MAP[ccy][2],
     currency         |-> ccy,
     conversion_rate  |-> DailyConv(m, ccy)]

build_rows_for_date(d, m) ==
    [i \in 1..Len(CURRENCIES) |-> DailyRow(d, m, CURRENCIES[i])]

\* rows = build_rows_for_date(d, usd_to); all_rows.extend(rows); next date
BuildRows ==
    /\ flow = "daily"
    /\ pc = "build"
    /\ IF DivisionRaises(usd_to)
       THEN /\ pc' = "raised"
            /\ exc' = "ZeroDivisionError"
            /\ UNCHANGED <<rows, all_rows, di>>
       ELSE /\ rows' = build_rows_for_date(dates[di], usd_to)
            /\ all_rows' = all_rows \o build_rows_for_date(dates[di], usd_to)
            /\ exc' = exc
            /\ IF di < Len(dates)
               THEN pc' = "fetch_xrates" /\ di' = di + 1
               ELSE pc' = "frame" /\ di' = di
    /\ UNCHANGED <<storeVars, retryVars>>
    /\ UNCHANGED <<flow, dates, xr, eh, fk, calls, rates, usd_to, page>>

-----------------------------------------------------------------------------
(* collect_for_dates: the frame and the gap fill *)

cols ==
    {"log_date", "conversion_year", "conversion_month", "country",
     "country_code", "currency", "conversion_rate"}

\* the columns of pd.DataFrame(list of dicts)
Columns(rs) == UNION {DOMAIN rs[i] : i \in 1..Len(rs)}

\* pd.to_datetime on an ISO date text: the day number
ParseDate(text) == CHOOSE d \in 1..Len(IsoDate) : IsoDate[d] = text

\* string order of the currency codes
CcySorted ==
    <<"AED", "ARS", "AUD", "BRL", "CAD", "CLP", "CNY", "EUR", "GBP", "MXN",
      "NZD", "PAB", "USD">>
CcyRank(c) == CHOOSE i \in 1..Len(CcySorted) : CcySorted[i] = c

\* sort_values: a stable sort of seq by the sort keys rank[1..Len(seq)]
StableSort(seq, rank) ==
    LET n == Len(seq)
        pos(i) == 1 + Cardinality({j \in 1..n :
                        \/ rank[j] < rank[i]
                        \/ (rank[j] = rank[i] /\ j < i)})
    IN  [p \in 1..n |-> seq[CHOOSE i \in 1..n : pos(i) = p]]

\* the sort key of df.sort_values(["currency", "log_date"])
ByCurrencyDate(df) ==
    [i \in 1..Len(df) |->
        CcyRank(df[i].currency) * (Len(IsoDate) + 1)
          + ParseDate(df[i].log_date)]

\* s.bfill() within each currency of a frame sorted by currency and date
Bfill(df) ==
    [i \in 1..Len(df) |->
        IF df[i].conversion_rate # None THEN df[i]
        ELSE LET later == {j \in (i + 1)..Len(df) :
                             /\ df[j].currency = df[i].currency
                             /\ df[j].conversion_rate # None}
             IN  IF later = {} THEN df[i]
                 ELSE [df[i] EXCEPT !.conversion_rate =
                        df[CHOOSE j \in later : \A k \in later : j <= k]
                          .conversion_rate]]

\* s.ffill() within each currency
Ffill(df) ==
    [i \in 1..Len(df) |->
        IF df[i].conversion_rate # None THEN df[i]
        ELSE LET earlier == {j \in 1..(i - 1) :
                               /\ df[j].currency = df[i].currency
                               /\ df[j].conversion_rate # None}
             IN  IF earlier = {} THEN df[i]
                 ELSE [df[i] EXCEPT !.conversion_rate =
                        df[CHOOSE j \in earlier : \A k \in earlier : j >= k]
                          .conversion_rate]]

\* groupby("currency")["conversion_rate"].apply(lambda s: s.bfill().ffill())
GapFill(df) == Ffill(Bfill(df))

\* pd.DataFrame(all_rows)[cols] raises KeyError unless every name in cols
\* is a column
FrameRaises(rs) == ~(cols \subseteq Columns(rs))

SelectCols(rs) == [i \in 1..Len(rs) |-> [c \in cols |-> rs[i][c]]]

\* the tail of collect_for_dates: df = pd.DataFrame(all_rows)[cols], sort,
\* fill the gaps per currency, return df
CollectFrame ==
    /\ flow = "daily"
    /\ pc = "frame"
    /\ IF FrameRaises(all_rows)
       THEN /\ pc' = "raised"
            /\ exc' = "KeyError"
            /\ rows' = rows
       ELSE /\ pc' = "collected"
            /\ exc' = exc
            /\ rows' = GapFill(StableSort(SelectCols(all_rows),
                                          ByCurrencyDate(SelectCols(all_rows))))
    /\ UNCHANGED <<storeVars, retryVars>>
    /\ UNCHANGED <<flow, dates, di, xr, eh, fk, calls, rates, usd_to,
                   all_rows, page>>

-----------------------------------------------------------------------------
(* Month-block flow: fetch_xrates_usd_to_quotes *)

XRATES_NAME_TO_ISO ==
    ("US Dollar" :> "USD") @@ ("U.S. Dollar" :> "USD") @@
    ("Argentine Peso" :> "ARS") @@ ("Australian Dollar" :> "AUD") @@
    ("Brazilian Real" :> "BRL") @@ ("Canadian Dollar" :> "CAD") @@
    ("Chilean Peso" :> "CLP") @@ ("Chinese Yuan" :> "CNY") @@
    ("Chinese Yuan Renminbi" :> "CNY") @@ ("UAE Dirham" :> "AED") @@
    ("Emirati Dirham" :> "AED") @@ ("Euro" :> "EUR") @@
    ("Mexican Peso" :> "MXN") @@ ("New Zealand Dollar" :> "NZD") @@
    ("Panamanian Balboa" :> "PAB") @@ ("British Pound" :> "GBP") @@
    ("British Pound Sterling" :> "GBP")

\* float(text.replace(",", "")) of the cell texts of the model; a text
\* outside the table makes float raise
CellValue == ("0" :> 0) @@ ("2" :> 2) @@ ("1,250" :> 1250)

\* the currency names and rate cells a scraped row may carry
PageNames == {"US Dollar", "Panamanian Balboa", "Euro",
              "British Pound Sterling", "Bitcoin"}
PageCells == {"n/a", "0", "2", "1,250"}
PageRow == [name : PageNames, cell : PageCells]

\* the rows of a page's tables in document order: at most MaxPageRows
MaxPageRows == 2
PageRows == UNION {[1..n -> PageRow] : n \in 0..MaxPageRows}

\* what the request and pd.read_html yield: an HTTP failure, no table, or
\* the tables' rows
Pages ==
    {[status |-> "http_error", rows |-> <<>>],
     [status |-> "no_tables", rows |-> <<>>]}
    \cup {[status |-> "tables", rows |-> rs] : rs \in PageRows}

\* the loop over the rows: unknown names and unparseable rates are skipped,
\* a later row of the same currency replaces an earlier one
RECURSIVE Scrape(_, _)
Scrape(rs, acc) ==
    IF rs = <<>> THEN acc
    ELSE LET row == Head(rs)
         IN  IF row.name \notin DOMAIN XRATES_NAME_TO_ISO
                  \/ row.cell \notin DOMAIN CellValue
             THEN Scrape(Tail(rs), acc)
             ELSE Scrape(Tail(rs),
                         Put(acc, XRATES_NAME_TO_ISO[row.name],
                             CellValue[row.cell]))

\* mutant: PAB is forced to parity, as the daily flow's builder does
MonthEnsureForced(r) == Put(Put(r, "USD", 1), "PAB", 1)

\* rates["USD"] = 1.0; rates.setdefault("PAB", 1.0)
MonthEnsure(r) == SetDefault(Put(r, "USD", 1), "PAB", 1)

\* if len(rates) <= 1: raise ValueError
SanityRaises(r) == Cardinality(DOMAIN r) <= 1

fetch_xrates_usd_to_quotes ==
    /\ flow = "month"
    /\ pc = "month_fetch"
    /\ \E p \in Pages :
        /\ page' = p
        /\ IF p.status = "http_error"
           THEN pc' = "raised" /\ exc' = "HTTPError" /\ usd_to' = usd_to
           ELSE IF p.status = "no_tables"
           THEN pc' = "raised" /\ exc' = "ValueError" /\ usd_to' = usd_to
           ELSE IF SanityRaises(MonthEnsure(Scrape(p.rows, EmptyMap)))
           THEN pc' = "raised" /\ exc' = "ValueError" /\ usd_to' = usd_to
           ELSE /\ pc' = "month_build"
                /\ exc' = exc
                /\ usd_to' = MonthEnsure(Scrape(p.rows, EmptyMap))
    /\ UNCHANGED <<storeVars, retryVars>>
    /\ UNCHANGED <<flow, dates, di, xr, eh, fk, calls, rates, rows, all_rows>>

-----------------------------------------------------------------------------
(* Month-block flow: build_rows_for_current_month *)

\* ym_label(today.year, today.month) for the months a run may fall in
MonthLabels == {"2025-October", "2025-November"}

\* label.split("-")
LabelYear(label) == "2025"
LabelMonth(label) ==
    IF label = "2025-October" THEN "October" ELSE "November"

\* conv = 1.0 if USD, else (1.0 / q) if q else None, q = usd_to_c.get(ccy).
\* The quotes of the model divide a million, so 1.0 / q is exact here.
MonthConv(m, ccy) ==
    IF ccy = "USD" THEN Micro
    ELSE IF ccy \in DOMAIN m /\ m[ccy] # None /\ m[ccy] # 0
         THEN Micro \div m[ccy] ELSE None

\* f"{a}-{b}": the pair stands for the joined text
Join(a, b) == <<a, b>>

MonthKey == "conversion year-month-currency"

MonthRow(label, ccy, conv) ==
    ("conversion year-month" :> label) @@
    (MonthKey :> Join(label, ccy)) @@
    ("conversion year-month-country" :> Join(label, COUNTRY_MAP[ccy][1])) @@
    ("currency-year-month" :> Join(ccy, label)) @@
    ("conversion year" :> LabelYear(label)) @@
    ("conversion month" :> LabelMonth(label)) @@
    ("country" :> COUNTRY_MAP[ccy][1]) @@
    ("country code" :> COUNTRY_MAP[ccy][2]) @@
    ("currency" :> ccy) @@
    ("conversion" :> conv)

build_rows_for_current_month(label, m) ==
    [i \in 1..Len(CURRENCIES) |->
        MonthRow(label, CURRENCIES[i], MonthConv(m, CURRENCIES[i]))]

\* rows = build_rows_for_current_month(usd_to_c), today in one of the months
BuildMonthRows ==
    /\ flow = "month"
    /\ pc = "month_build"
    /\ \E label \in MonthLabels :
        rows' = build_rows_for_current_month(label, usd_to)
    /\ pc' = "month_built"
    /\ UNCHANGED <<storeVars, retryVars>>
    /\ UNCHANGED <<flow, dates, di, xr, eh, fk, calls, rates, usd_to,
                   all_rows, exc, page>>

-----------------------------------------------------------------------------
(* Files *)

NoFile == [state |-> "absent", rows |-> <<>>]

\* a file that exists but that read_csv / read_excel cannot read
CorruptFile == [state |-> "corrupt", rows |-> <<>>]

\* what to_csv / to_excel leave at the path
Written(rs) == [state |-> "ok", rows |-> rs]

\* path.exists()
Exists(f) == f.state # "absent"

\* What the file system does with an existing file during one merge:
\*   "free"            it can be moved and written
\*   "locked"          moving and writing it raise PermissionError
\*   "locked_writable" moving it raises PermissionError, writing works
\*   "archive_error"   moving it raises another exception, writing works
\*   "locked_exclusive" moving, copying and writing it raise PermissionError
Conditions(f) ==
    IF Exists(f)
    THEN {"free", "locked", "locked_writable", "archive_error",
          "locked_exclusive"}
    ELSE {"free"}

\* shutil.move(path, stamped) raises PermissionError
MoveDenied(cond) == cond \in {"locked", "locked_writable", "locked_exclusive"}

\* shutil.copy2(path, stamped) raises PermissionError
CopyDenied(cond) == cond = "locked_exclusive"

\* to_csv / to_excel on the path raise PermissionError
WriteDenied(cond) == cond \in {"locked", "locked_exclusive"}

\* the elements of seq at the indices K, in order
FilterIdx(seq, K) ==
    [n \in 1..Cardinality(K) |->
        seq[CHOOSE i \in K : Cardinality({j \in K : j <= i}) = n]]

-----------------------------------------------------------------------------
(* archive_file *)

\* stamped = archive_dir / f"{path.stem}_{ts()}{path.suffix}"
Stamped(stem, f, how) == [stem |-> stem, content |-> f, how |-> how]

\* the archive after archive_file(path): a moved or a copied file is added,
\* nothing when the file is absent or the move fails otherwise
ArchiveAfter(arch, stem, f, cond) ==
    IF ~Exists(f) THEN arch
    ELSE IF ~MoveDenied(cond) /\ cond # "archive_error"
         THEN Append(arch, Stamped(stem, f, "moved"))
    ELSE IF MoveDenied(cond) /\ ~CopyDenied(cond)
         THEN Append(arch, Stamped(stem, f, "copied"))
    ELSE arch

\* archive_file(path) raises: the copy in the PermissionError handler fails,
\* and no handler of the same try statement catches what a handler raises
ArchiveRaises(f, cond) == Exists(f) /\ MoveDenied(cond) /\ CopyDenied(cond)

\* the working path after archive_file(path): only a move empties it
PathAfterArchive(f, cond) ==
    IF Exists(f) /\ ~MoveDenied(cond) /\ cond # "archive_error"
    THEN NoFile ELSE f

-----------------------------------------------------------------------------
(* write_append_dedupe *)

NaT == 0

\* pd.to_datetime(text, errors="coerce"): the day number, NaT for a text
\* that is no date (an empty cell included)
ToDatetimeCoerce(text) ==
    IF \E d \in 1..Len(IsoDate) : IsoDate[d] = text
    THEN CHOOSE d \in 1..Len(IsoDate) : IsoDate[d] = text
    ELSE NaT

\* .dt.date.astype("string"), as to_csv writes it: <NA> is an empty cell
DateText(t) == IF t = NaT THEN "" ELSE IsoDate[t]

\* drop_duplicates(keep="first") on the subset values key[1..Len(seq)]
DropDuplicatesFirst(seq, key) ==
    FilterIdx(seq, {i \in 1..Len(seq) :
        \A j \in 1..(i - 1) : key[j] # key[i]})

\* drop_duplicates(keep="last") on the subset values key[1..Len(seq)]
DropDuplicatesLast(seq, key) ==
    FilterIdx(seq, {i \in 1..Len(seq) :
        \A j \in (i + 1)..Len(seq) : key[j] # key[i]})

\* the subset ["log_date", "currency"] after to_datetime
DailyKey(df) ==
    [i \in 1..Len(df) |-> <<ToDatetimeCoerce(df[i].log_date), df[i].currency>>]

\* the sort key of sort_values(["log_date", "currency"]): NaT sorts last
ByDateCurrency(df) ==
    [i \in 1..Len(df) |->
        (IF ToDatetimeCoerce(df[i].log_date) = NaT THEN Len(IsoDate) + 1
         ELSE ToDatetimeCoerce(df[i].log_date)) * (Len(CcySorted) + 1)
          + CcyRank(df[i].currency)]

\* log_date as written: to_datetime, then .dt.date.astype("string")
NormaliseDate(r) ==
    [r EXCEPT !.log_date = DateText(ToDatetimeCoerce(r.log_date))]

\* mutant: keep="first", the stored row wins
DailyMergeStoredWins(old, new) ==
    LET kept == DropDuplicatesFirst(old \o new, DailyKey(old \o new))
        sorted == StableSort(kept, ByDateCurrency(kept))
    IN  [i \in 1..Len(sorted) |-> NormaliseDate(sorted[i])]

\* mutant: no drop_duplicates, every row of both frames is kept
DailyMergeAppend(old, new) ==
    LET sorted == StableSort(old \o new, ByDateCurrency(old \o new))
    IN  [i \in 1..Len(sorted) |-> NormaliseDate(sorted[i])]

\* df_all: concat, to_datetime, drop_duplicates keep="last", sort_values,
\* dates back to text
DailyMerge(old, new) ==
    LET kept == DropDuplicatesLast(old \o new, DailyKey(old \o new))
        sorted == StableSort(kept, ByDateCurrency(kept))
    IN  [i \in 1..Len(sorted) |-> NormaliseDate(sorted[i])]

\* pd.read_csv(csv_path) under try/except: an unreadable file reads as empty
ReadOrEmpty(f) == IF f.state = "ok" THEN f.rows ELSE <<>>

StoreRow(text, ccy, rate) ==
    [log_date         |-> text,
     conversion_year  |-> 2023,
     conversion_month |-> "January",
     country          |-> COUNTRY_MAP[ccy][1],
     country_code     |-> COUNTRY_MAP[ccy][2],
     currency         |-> ccy,
     conversion_rate  |-> rate]

\* the rows a batch handed to write_append_dedupe may hold: two days and
\* one text that is no date, two currencies, two rates
DailyBatchRows ==
    {StoreRow(IsoDate[1], "USD", Micro), StoreRow(IsoDate[1], "USD", 500000),
     StoreRow(IsoDate[2], "USD", Micro), StoreRow(IsoDate[1], "EUR", 500000),
     StoreRow("n/a", "USD", Micro),      StoreRow("n/a", "USD", 500000)}

\* a batch holds at most MaxBatch rows
MaxBatch == 2
DailyBatches == UNION {[1..n -> DailyBatchRows] : n \in 0..MaxBatch}

\* The working CSV an earlier run left: what a run against no file writes
\* from a batch of at most MaxStored rows.
MaxStored == 2
DailyStores ==
    {Written(DailyMerge(<<>>, b)) :
        b \in UNION {[1..n -> DailyBatchRows] : n \in 0..MaxStored}}

\* runs of a script against the same store in one behaviour
MaxRuns == 2

\* what the last merge found: the files, their conditions, the archive, and
\* how the merge before it ended
Found(ccond, xcond) ==
    [csv |-> csv, xlsx |-> xlsx, ccond |-> ccond, xcond |-> xcond,
     archive |-> archive, result |-> result]

\* the batch of a run: any batch in the first run, the same batch again in
\* the later ones
BatchOfRun(batches) == IF runs = 0 THEN batches ELSE {df_new}

write_append_dedupe ==
    /\ flow = "daily"
    /\ pc = "store"
    /\ \E batch \in BatchOfRun(DailyBatches), ccond \in Conditions(csv),
          xcond \in Conditions(xlsx) :
        LET df_all == DailyMerge(ReadOrEmpty(csv), batch)
            arch1 == ArchiveAfter(archive, "csv", csv, ccond)
            arch2 == ArchiveAfter(arch1, "xlsx", xlsx, xcond)
        IN  /\ df_new' = batch
            /\ before' = Found(ccond, xcond)
            /\ IF ArchiveRaises(csv, ccond)
               THEN \* archive_file(csv_path) raises: nothing has changed
                    /\ UNCHANGED <<archive, csv, xlsx, alts>>
                    /\ result' = "raised"
               ELSE IF ArchiveRaises(xlsx, xcond)
               THEN \* archive_file(xlsx_path) raises after the CSV has
                    \* been archived
                    /\ archive' = arch1
                    /\ csv' = PathAfterArchive(csv, ccond)
                    /\ UNCHANGED <<xlsx, alts>>
                    /\ result' = "raised"
               ELSE IF WriteDenied(ccond)
               THEN \* to_csv raises PermissionError: nothing is written
                    /\ archive' = arch2
                    /\ csv' = PathAfterArchive(csv, ccond)
                    /\ xlsx' = PathAfterArchive(xlsx, xcond)
                    /\ alts' = alts
                    /\ result' = "raised"
               ELSE /\ archive' = arch2
                    /\ csv' = Written(df_all)
                    /\ IF WriteDenied(xcond)
                       THEN /\ xlsx' = PathAfterArchive(xlsx, xcond)
                            /\ alts' = Append(alts, Written(df_all))
                       ELSE /\ xlsx' = Written(df_all)
                            /\ alts' = alts
                    /\ result' = "ok"
    /\ runs' = runs + 1
    /\ pc' = "written"
    /\ UNCHANGED <<flow, rateVars, retryVars, log>>

-----------------------------------------------------------------------------
(* merge_and_write *)

\* the subset [key]
MonthKeyOf(df) == [i \in 1..Len(df) |-> df[i][MonthKey]]

\* mutant: keep="last", the row of the new batch wins
MonthMergeNewWins(old, new) ==
    DropDuplicatesLast(old \o new, MonthKeyOf(old \o new))

\* pd.concat([df_old, df_new]).drop_duplicates(subset=[key], keep="first")
MonthMerge(old, new) ==
    DropDuplicatesFirst(old \o new, MonthKeyOf(old \o new))

\* df_out: the merge when the CSV exists and can be read (its header then
\* holds the key column), df_new otherwise
MonthCsvOut(f, new) ==
    IF f.state = "ok" THEN MonthMerge(f.rows, new) ELSE new

\* df_out_xlsx: the same merge against the XLSX on disk, df_out otherwise
MonthXlsxOut(fx, fc, new) ==
    IF fx.state = "ok" THEN MonthMerge(fx.rows, new)
    ELSE MonthCsvOut(fc, new)

\* the maps fetch_xrates_usd_to_quotes hands to the builder here
MonthQuoteMaps ==
    {MonthEnsure(m) : m \in {EmptyMap, [EUR |-> 2], [EUR |-> 1250],
                             [EUR |-> 2, PAB |-> 2]}}

\* df_new in main: the month block built from such a map
MonthBatches ==
    {build_rows_for_current_month(l, m) :
        l \in MonthLabels, m \in MonthQuoteMaps}

\* The working CSV earlier runs left: no file, or what up to MaxBlocks runs
\* wrote, the first of them against no file.
MaxBlocks == 1
RECURSIVE MonthStoresAfter(_)
MonthStoresAfter(n) ==
    IF n = 0 THEN {NoFile}
    ELSE LET prev == MonthStoresAfter(n - 1)
         IN  prev \cup {Written(MonthCsvOut(f, b)) :
                           f \in prev, b \in MonthBatches}
MonthStores == MonthStoresAfter(MaxBlocks) \ {NoFile}

\* the file system's conditions that matter to merge_and_write, which
\* archives nothing
WriteConditions(f) == IF Exists(f) THEN {"free", "locked"} ELSE {"free"}

merge_and_write ==
    /\ flow = "month"
    /\ pc = "store"
    /\ \E batch \in BatchOfRun(MonthBatches),
          ccond \in WriteConditions(csv), xcond \in WriteConditions(xlsx) :
        /\ df_new' = batch
        /\ before' = Found(ccond, xcond)
        /\ IF WriteDenied(ccond)
           THEN \* to_csv raises PermissionError, which leaves the function
                /\ UNCHANGED <<csv, xlsx, alts>>
                /\ result' = "raised"
           ELSE /\ csv' = Written(MonthCsvOut(csv, batch))
                /\ IF WriteDenied(xcond)
                   THEN /\ xlsx' = xlsx
                        /\ alts' = Append(alts,
                                     Written(MonthXlsxOut(xlsx, csv, batch)))
                   ELSE /\ xlsx' = Written(MonthXlsxOut(xlsx, csv, batch))
                        /\ alts' = alts
                /\ result' = "ok"
    /\ runs' = runs + 1
    /\ pc' = "written"
    /\ UNCHANGED <<flow, rateVars, retryVars, archive, log>>

-----------------------------------------------------------------------------
(* main of the daily flow: what it logs around the collection and the write *)

LogStarted == "=== CCR RUN STARTED ==="
LogCollectFailed == "Data collection failed"
LogEndedFailed == "=== CCR RUN ENDED (FAILED) ==="
LogWriteFailed == "File write failed"
LogBuilt == "Built daily block(s)"
LogEndedOk == "=== CCR RUN ENDED (OK) ==="
LogDbPush == "DB PUSH completed successfully."

\* mutant: main goes on to the write after a failed collection
AfterCollectFailureWrites == "store"

\* the `return` of the handler of collect_for_dates' exception
AfterCollectFailure == "ended"

\* except Exception as e: log the failure and the FAILED banner, return
MainCollectFailed ==
    /\ flow = "daily"
    /\ pc = "raised"
    /\ log' = log \o <<LogCollectFailed, LogEndedFailed>>
    /\ pc' = AfterCollectFailure
    /\ UNCHANGED <<flow, rateVars, retryVars>>
    /\ UNCHANGED <<csv, xlsx, archive, alts, df_new, before, result, runs>>

\* the rest of main once write_append_dedupe has returned or raised: the
\* handler logs a failed write, then the closing lines are logged
MainAfterWrite ==
    /\ flow = "daily"
    /\ pc = "written"
    /\ log' = log
               \o (IF result = "raised" THEN <<LogWriteFailed>> ELSE <<>>)
               \o <<LogBuilt, LogEndedOk, LogDbPush>>
    /\ pc' = "ended"
    /\ UNCHANGED <<flow, rateVars, retryVars>>
    /\ UNCHANGED <<csv, xlsx, archive, alts, df_new, before, result, runs>>

\* the script is started again and reaches its merge
RunAgain ==
    /\ runs < MaxRuns
    /\ \/ flow = "daily" /\ pc = "ended" /\ result # "none"
       \/ flow = "month" /\ pc = "written"
    /\ pc' = "store"
    /\ log' = IF flow = "daily" THEN <<LogStarted>> ELSE log
    /\ UNCHANGED <<flow, rateVars, retryVars>>
    /\ UNCHANGED <<csv, xlsx, archive, alts, df_new, before, result, runs>>

-----------------------------------------------------------------------------
(* The two scripts up to the rows they build *)

NoPage == [status |-> "none", rows |-> <<>>]

InitCommon ==
    /\ di = 1
    /\ xr = NotCalled
    /\ eh = NotCalled
    /\ fk = NotCalled
    /\ calls = <<>>
    /\ rates = EmptyMap
    /\ usd_to = EmptyMap
    /\ rows = <<>>
    /\ all_rows = <<>>
    /\ exc = "none"
    /\ page = NoPage
    /\ ri = 0
    /\ tries = <<>>
    /\ sleeps = <<>>
    /\ raised = NoError

\* _retry_get is not being run: its defaults
RetryIdle == attempts = MaxAttempts /\ expect_json = TRUE

\* no merge has run
InitStoreVars ==
    /\ archive = <<>>
    /\ alts = <<>>
    /\ df_new = <<>>
    /\ before = [csv |-> NoFile, xlsx |-> NoFile, ccond |-> "free",
                 xcond |-> "free", archive |-> <<>>, result |-> "none"]
    /\ result = "none"
    /\ runs = 0

\* daterange(start_dt, today): n consecutive days
DateRange(n) == [i \in 1..n |-> i]

\* one date resolved and built (daily), or one month block (month)
InitRates ==
    /\ InitCommon
    /\ InitStoreVars /\ csv = NoFile /\ xlsx = NoFile /\ log = <<>>
    /\ RetryIdle
    /\ \/ flow = "daily" /\ pc = "fetch_xrates" /\ dates = DateRange(1)
       \/ flow = "month" /\ pc = "month_fetch" /\ dates = <<>>

\* the working files a run of main finds in the collection runs
StoreAtStart ==
    Written(DailyMerge(<<>>, <<StoreRow(IsoDate[1], "USD", Micro),
                               StoreRow(IsoDate[1], "EUR", 500000)>>))

\* main has logged its start banner and calls collect_for_dates over a
\* range of days
InitCollect ==
    /\ InitCommon
    /\ InitStoreVars /\ csv = StoreAtStart /\ xlsx = StoreAtStart
    /\ RetryIdle
    /\ log = <<LogStarted>>
    /\ flow = "daily"
    /\ pc = "fetch_xrates"
    /\ \E n \in 1..MaxDates : dates = DateRange(n)

NextRates ==
    \/ CallXrates
    \/ CallExchangerateHost
    \/ CallFrankfurter
    \/ FetchReturn
    \/ BuildRows
    \/ CollectFrame
    \/ fetch_xrates_usd_to_quotes
    \/ BuildMonthRows

NextCollect ==
    \/ CallXrates
    \/ CallExchangerateHost
    \/ CallFrankfurter
    \/ FetchReturn
    \/ BuildRows
    \/ CollectFrame
    \/ MainCollectFailed

\* A script reaches its merge.  The working CSV is absent, unreadable, or
\* as earlier runs of the same script left it.  The daily flow never reads
\* the XLSX: it is absent, unreadable or holds what the CSV holds.  The month
\* flow merges into the XLSX on disk, which an earlier run may have left
\* behind the CSV (it was locked, or the CSV was replaced since).
InitStore ==
    /\ InitCommon
    /\ InitStoreVars
    /\ RetryIdle
    /\ dates = <<>>
    /\ pc = "store"
    /\ \/ /\ flow = "daily"
          /\ log = <<LogStarted>>
          /\ csv \in {NoFile, CorruptFile} \cup DailyStores
          /\ xlsx \in {NoFile, CorruptFile, csv}
       \/ /\ flow = "month"
          /\ log = <<>>
          /\ csv \in {NoFile, CorruptFile} \cup MonthStores
          /\ xlsx \in {NoFile, CorruptFile} \cup MonthStores

\* one run of either script from its merge on
NextStore ==
    \/ write_append_dedupe
    \/ merge_and_write
    \/ MainAfterWrite

SpecStore == InitStore /\ [][NextStore]_vars

\* Runs repeated with the same batch.  The daily store holds at most one row
\* before the first run, and the XLSX is absent or holds what the CSV holds.
InitRerun ==
    /\ InitStore
    /\ xlsx \in {NoFile, csv}
    /\ flow = "daily" => Len(csv.rows) <= 1

NextRerun ==
    \/ write_append_dedupe
    \/ merge_and_write
    \/ MainAfterWrite
    \/ RunAgain

SpecRerun == InitRerun /\ [][NextRerun]_vars

SpecRates == InitRates /\ [][NextRates]_vars

\* _retry_get(url, params, attempts = n, expect_json = j) is called
InitRetry ==
    /\ InitCommon
    /\ InitStoreVars /\ csv = NoFile /\ xlsx = NoFile /\ log = <<>>
    /\ dates = <<>>
    /\ flow = "retry"
    /\ pc = "retry_loop"
    /\ attempts \in 1..MaxAttempts
    /\ expect_json \in BOOLEAN

NextRetry ==
    \/ RetryAttempt
    \/ RetryExhausted

SpecRetry == InitRetry /\ [][NextRetry]_vars

SpecCollect == InitCollect /\ [][NextCollect]_vars

-----------------------------------------------------------------------------
(* Claims about the merges *)

\* a merge has run to its end or has raised
MergeRan == pc \in {"written", "ended"} /\ result \in {"ok", "raised"}

\* the key of a row of the daily dataset: its date and its currency
DateCurrency(r) == <<ToDatetimeCoerce(r.log_date), r.currency>>

\* the indices of the rows of rs that carry key k
WithKey(rs, k) == {i \in 1..Len(rs) : DateCurrency(rs[i]) = k}

KeysOf(rs) == {DateCurrency(rs[i]) : i \in 1..Len(rs)}

\* the last row of the batch that carries key k, its date as the file
\* holds dates
LastOfBatch(k) ==
    LET i == CHOOSE x \in WithKey(df_new, k) :
                 \A y \in WithKey(df_new, k) : y <= x
    IN  [df_new[i] EXCEPT !.log_date = DateText(k[1])]

\* C1: after write_append_dedupe completes, the written CSV has no two rows
\* with the same (log_date, currency), and for every key of both the stored
\* CSV and the new batch the written row is the batch's row.
C1_NewRowWins ==
    (flow = "daily" /\ MergeRan /\ result = "ok") =>
        /\ csv.state = "ok"
        /\ \A i, j \in 1..Len(csv.rows) :
             (csv.rows[i].log_date = csv.rows[j].log_date
              /\ csv.rows[i].currency = csv.rows[j].currency) => i = j
        /\ \A k \in KeysOf(before.csv.rows) \cap KeysOf(df_new) :
             \E i \in WithKey(csv.rows, k) : csv.rows[i] = LastOfBatch(k)

C1_Witness ==
    /\ flow = "daily" /\ MergeRan /\ result = "ok"
    /\ before.csv.state = "ok"
    /\ \E k \in KeysOf(before.csv.rows) \cap KeysOf(df_new) :
         /\ \E i \in WithKey(before.csv.rows, k) :
              before.csv.rows[i].conversion_rate
                # LastOfBatch(k).conversion_rate
         /\ \E i \in WithKey(csv.rows, k) :
              csv.rows[i].conversion_rate = LastOfBatch(k).conversion_rate
    /\ Len(csv.rows) > Len(before.csv.rows)

\* the key of a row of either dataset
StoreKey(r) == IF flow = "daily" THEN DateCurrency(r) ELSE r[MonthKey]

\* C2 (as claimed): a merge of either script never loses a stored row:
\* every row of the working CSV before the run is afterwards still there or
\* replaced there by a row with the same key.
C2_NoStoredRowLost ==
    MergeRan =>
        \A i \in 1..Len(before.csv.rows) :
            \/ \E j \in 1..Len(csv.rows) : csv.rows[j] = before.csv.rows[i]
            \/ \E j \in 1..Len(csv.rows) :
                 StoreKey(csv.rows[j]) = StoreKey(before.csv.rows[i])

-----------------------------------------------------------------------------
(* Claims about the resolver and the row builders *)

NonUsd == Tracked \ {"USD"}

\* the currencies for which an adapter's response holds a non-null value
Supplied(o) ==
    IF o.status = "returned"
    THEN {k \in DOMAIN o.val : o.val[k] # None} ELSE {}

\* fetch_usd_quotes_for_date has returned for the current date
FetchReturned == flow = "daily" /\ usd_to # EmptyMap

\* C3: when _from_xrates returns non-null quotes for every tracked currency
\* other than USD, no other adapter is called for that date and every value
\* of the returned map, USD's aside, is the first adapter's.
C3_XratesOnlyWhenComplete ==
    (flow = "daily" /\ NonUsd \subseteq Supplied(xr)) =>
        /\ eh = NotCalled
        /\ fk = NotCalled
        /\ \A i \in 1..Len(calls) : calls[i].adapter = "xrates"
        /\ FetchReturned =>
             \A k \in DOMAIN usd_to \ {"USD"} :
                 k \in Supplied(xr) /\ usd_to[k] = xr.val[k]

C3_Witness ==
    /\ FetchReturned
    /\ NonUsd \subseteq Supplied(xr)
    /\ usd_to["GBP"] = xr.val["GBP"]
    /\ Len(calls) = 1

\* C4: the returned map holds, for every currency other than USD that some
\* adapter supplied, the value of the highest-priority adapter that supplied
\* it, whatever the later adapters returned.
C4_HigherPriorityKept ==
    FetchReturned =>
        \A k \in (Supplied(xr) \cup Supplied(eh) \cup Supplied(fk)) \ {"USD"} :
            /\ k \in DOMAIN usd_to
            /\ usd_to[k] =
                 IF k \in Supplied(xr) THEN xr.val[k]
                 ELSE IF k \in Supplied(eh) THEN eh.val[k]
                 ELSE fk.val[k]

C4_Witness ==
    /\ FetchReturned
    /\ "GBP" \in Supplied(xr) /\ "GBP" \in Supplied(eh)
    /\ "PAB" \in Supplied(eh) /\ "PAB" \in Supplied(fk)
    /\ "PAB" \notin Supplied(xr)
    /\ xr.val["GBP"] # eh.val["GBP"]
    /\ eh.val["PAB"] # fk.val["PAB"]
    /\ usd_to["GBP"] = xr.val["GBP"]
    /\ usd_to["PAB"] = eh.val["PAB"]

\* C5: the adapters are called in the order x-rates, exchangerate.host,
\* Frankfurter; each one after the first is called with exactly the tracked
\* non-USD currencies no earlier adapter supplied, and only when there is one.
C5_CallOrderAndNeeded ==
    flow = "daily" =>
        /\ Len(calls) <= 3
        /\ Len(calls) >= 1 => calls[1].adapter = "xrates"
        /\ Len(calls) >= 2 =>
             /\ calls[2].adapter = "exchangerate_host"
             /\ calls[2].needed = NonUsd \ Supplied(xr)
             /\ calls[2].needed # {}
        /\ Len(calls) >= 3 =>
             /\ calls[3].adapter = "frankfurter"
             /\ calls[3].needed = NonUsd \ (Supplied(xr) \cup Supplied(eh))
             /\ calls[3].needed # {}
        /\ (eh # NotCalled) = (Len(calls) >= 2)
        /\ (fk # NotCalled) = (Len(calls) >= 3)

C5_Witness ==
    /\ FetchReturned
    /\ Len(calls) = 3
    /\ calls[3].needed # calls[2].needed
    /\ calls[3].needed = {"GBP"}

\* C6 (as claimed): an adapter's failure is caught inside
\* fetch_usd_quotes_for_date and does not reach its caller.
C6_AdapterFailureAbsorbed ==
    (flow = "daily"
     /\ (xr.status = "raised" \/ eh.status = "raised" \/ fk.status = "raised"))
        => ~(pc = "raised" /\ exc = "RuntimeError")

\* the rows build_rows_for_date returned for the current date
DailyRowsBuilt ==
    /\ FetchReturned
    /\ rows # <<>>
    /\ pc \in {"fetch_xrates", "frame", "raised", "collected"}

RowsOf(rs, ccy) == {i \in 1..Len(rs) : rs[i].currency = ccy}

\* C7: the daily row of PAB has conversion_rate exactly 1.0 whatever the
\* adapters supplied for PAB.
C7_DailyPabIsOne ==
    DailyRowsBuilt =>
        /\ RowsOf(rows, "PAB") # {}
        /\ \A i \in RowsOf(rows, "PAB") : rows[i].conversion_rate = Micro

C7_Witness ==
    /\ DailyRowsBuilt
    /\ usd_to["PAB"] = 2
    /\ \E i \in RowsOf(rows, "PAB") : rows[i].conversion_rate = Micro

\* the rows build_rows_for_current_month returned
MonthRowsBuilt == flow = "month" /\ pc = "month_built"

MonthRowsOf(rs, ccy) == {i \in 1..Len(rs) : rs[i]["currency"] = ccy}

\* the rows of the page that give a usable rate for the currency
UsableRows(ccy) ==
    {i \in 1..Len(page.rows) :
        /\ page.rows[i].name \in DOMAIN XRATES_NAME_TO_ISO
        /\ XRATES_NAME_TO_ISO[page.rows[i].name] = ccy
        /\ page.rows[i].cell \in DOMAIN CellValue}

LastUsable(ccy) ==
    CellValue[page.rows[CHOOSE i \in UsableRows(ccy) :
                            \A j \in UsableRows(ccy) : j <= i].cell]

C9_UsdIsOne ==
    /\ DailyRowsBuilt =>
         /\ RowsOf(rows, "USD") # {}
         /\ \A i \in RowsOf(rows, "USD") : rows[i].conversion_rate = Micro
    /\ MonthRowsBuilt =>
         /\ MonthRowsOf(rows, "USD") # {}
         /\ \A i \in MonthRowsOf(rows, "USD") : rows[i]["conversion"] = Micro

C9_Witness ==
    /\ DailyRowsBuilt
    /\ "USD" \in Supplied(xr)
    /\ xr.val["USD"] = 2
    /\ \E i \in RowsOf(rows, "USD") : rows[i].conversion_rate = Micro

\* collect_for_dates has ended, every date having been resolved and built
CollectEndedAllBuilt ==
    /\ flow = "daily"
    /\ pc \in {"collected", "raised"}
    /\ Len(all_rows) = Len(CURRENCIES) * Len(dates)

\* C10 (as claimed): when every date resolves, collect_for_dates returns a
\* table with exactly one row per (date, tracked currency).
C10_OneRowPerDateAndCurrency ==
    CollectEndedAllBuilt =>
        /\ pc = "collected"
        /\ Len(rows) = Len(CURRENCIES) * Len(dates)
        /\ \A n \in 1..Len(dates) : \A c \in Tracked :
             Cardinality({i \in 1..Len(rows) :
                 /\ rows[i]["log_date"] = IsoDate[dates[n]]
                 /\ rows[i]["currency"] = c}) = 1

-----------------------------------------------------------------------------
(* Claims about the daily rows and the collection *)

\* build_rows_for_date has been called on the map the resolver returned
DailyBuildCalled == flow = "daily" /\ usd_to # EmptyMap /\ pc # "build"

\* a quote the builder cannot invert: zero, None, or not in the map
Unusable(m, ccy) == ~HasQuote(m, ccy) \/ m[ccy] = 0

\* C11 (as claimed): build_rows_for_date never raises because of a quote
\* value: it returns one row per tracked currency, and the row of every
\* non-pegged currency whose quote is zero, None or absent has a null
\* conversion_rate.
C11_UnusableQuoteGivesNull ==
    DailyBuildCalled =>
        /\ exc # "ZeroDivisionError"
        /\ Len(rows) = Len(CURRENCIES)
        /\ \A c \in Tracked \ {"PAB"} :
             Unusable(usd_to, c) =>
                \A i \in RowsOf(rows, c) : rows[i].conversion_rate = None

\* the rate build_rows_for_date gave currency c on the n-th date
BuiltRate(c, n) ==
    LET i == CHOOSE x \in 1..Len(all_rows) :
                 /\ all_rows[x].currency = c
                 /\ all_rows[x].conversion_date = IsoDate[dates[n]]
    IN  all_rows[i].conversion_rate

\* what the gap fill is to leave for currency c on the n-th date: the built
\* rate, else the nearest later one of c, else the nearest earlier one of c
Filled(c, n) ==
    LET later   == {m \in (n + 1)..Len(dates) : BuiltRate(c, m) # None}
        earlier == {m \in 1..(n - 1) : BuiltRate(c, m) # None}
    IN  IF BuiltRate(c, n) # None THEN BuiltRate(c, n)
        ELSE IF later # {}
             THEN BuiltRate(c, CHOOSE m \in later : \A k \in later : m <= k)
        ELSE IF earlier # {}
             THEN BuiltRate(c, CHOOSE m \in earlier : \A k \in earlier : m >= k)
        ELSE None

\* some currency has a null rate on one date and a rate on another
HasGap ==
    \E c \in Tracked : \E n, m \in 1..Len(dates) :
        BuiltRate(c, n) = None /\ BuiltRate(c, m) # None

\* C12 (as claimed): collect_for_dates returns the built rows gap-filled per
\* currency: a null rate is replaced by the nearest later rate of the same
\* currency, else by the nearest earlier one; other rates are unchanged and
\* an all-null series stays null.
C12_GapsFilledPerCurrency ==
    (CollectEndedAllBuilt /\ HasGap) =>
        /\ pc = "collected"
        /\ \A n \in 1..Len(dates) : \A c \in Tracked :
             \E i \in 1..Len(rows) :
                /\ rows[i]["log_date"] = IsoDate[dates[n]]
                /\ rows[i]["currency"] = c
                /\ rows[i]["conversion_rate"] = Filled(c, n)

-----------------------------------------------------------------------------
(* Claims about repeated merges, archiving and main *)

\* the last two merges both wrote the working CSV, the later one with the
\* batch of the earlier one
MergedTwice ==
    /\ runs >= 2
    /\ MergeRan
    /\ result = "ok"
    /\ before.result = "ok"

\* C13: both merges are idempotent: a second run with the same batch leaves
\* the working CSV with the rows the first run left (same count, same keys,
\* same values).
C13_MergeIdempotent ==
    MergedTwice => (csv.state = "ok" /\ csv.rows = before.csv.rows)

C13_Witness ==
    /\ flow = "daily"
    /\ MergedTwice
    /\ Len(df_new) = MaxBatch
    /\ Len(csv.rows) < Len(df_new) + 1
    /\ \E i \in 1..Len(csv.rows) :
         \A j \in 1..Len(df_new) :
            DateCurrency(csv.rows[i]) # DateCurrency(df_new[j])

\* merge_and_write has written the CSV over a stored CSV it could read
MonthMerged ==
    /\ flow = "month"
    /\ MergeRan
    /\ result = "ok"
    /\ before.csv.state = "ok"

MonthKeys(rs) == {rs[i][MonthKey] : i \in 1..Len(rs)}

\* C14: insert-if-absent: every stored row is in the written CSV unchanged
\* and is the only row of its key there, whatever the batch holds for that
\* key; every other written row is a row of the batch whose key was not
\* stored.
C14_StoredRowKept ==
    MonthMerged =>
        /\ \A i \in 1..Len(before.csv.rows) :
             /\ \E j \in 1..Len(csv.rows) : csv.rows[j] = before.csv.rows[i]
             /\ \A j \in 1..Len(csv.rows) :
                  csv.rows[j][MonthKey] = before.csv.rows[i][MonthKey]
                     => csv.rows[j] = before.csv.rows[i]
        /\ \A j \in 1..Len(csv.rows) :
             \/ \E i \in 1..Len(before.csv.rows) :
                  csv.rows[j] = before.csv.rows[i]
             \/ /\ \E i \in 1..Len(df_new) : csv.rows[j] = df_new[i]
                /\ csv.rows[j][MonthKey] \notin MonthKeys(before.csv.rows)

\* a batch that carries another value for a stored key
C14_Witness ==
    /\ MonthMerged
    /\ \E i \in 1..Len(before.csv.rows) : \E j \in 1..Len(df_new) :
         /\ df_new[j][MonthKey] = before.csv.rows[i][MonthKey]
         /\ df_new[j]["conversion"] # before.csv.rows[i]["conversion"]

\* the archive holds a stamped file of the path with the content f
Archived(stem, f) ==
    \E i \in 1..Len(archive) :
        archive[i].stem = stem /\ archive[i].content = f

\* the stamped files of a path in an archive
StampedOf(arch, stem) == {i \in 1..Len(arch) : arch[i].stem = stem}

\* write_append_dedupe has run to_csv / to_excel on the working path
CsvWritten == flow = "daily" /\ MergeRan /\ result = "ok"
XlsxWritten == CsvWritten /\ ~WriteDenied(before.xcond)

\* C15 (as claimed): whenever write_append_dedupe writes to an output path
\* at which a file existed when the merge started, the archive holds a
\* stamped file with that file's previous content (archive_file runs before
\* the writes, so what the archive holds after the merge it held at the
\* write).
C15_ArchivedBeforeOverwrite ==
    /\ (CsvWritten /\ Exists(before.csv)) => Archived("csv", before.csv)
    /\ (XlsxWritten /\ Exists(before.xlsx)) => Archived("xlsx", before.xlsx)

\* archive_file(csv_path) / archive_file(xlsx_path) was called on an
\* existing file whose move raised PermissionError
CsvMoveDenied ==
    /\ flow = "daily" /\ MergeRan
    /\ Exists(before.csv) /\ MoveDenied(before.ccond)
XlsxMoveDenied ==
    /\ flow = "daily" /\ MergeRan
    /\ ~ArchiveRaises(before.csv, before.ccond)
    /\ Exists(before.xlsx) /\ MoveDenied(before.xcond)

\* C16 (as claimed): when the move of an existing output file raises
\* PermissionError, archive_file copies the file into the archive and
\* returns: the archive gains exactly one stamped file for that path, a
\* copy of the file, and write_append_dedupe goes on to write the merged
\* dataset, the run does not fail.
C16_LockedFileCopiedRunGoesOn ==
    /\ CsvMoveDenied =>
         /\ Cardinality(StampedOf(archive, "csv"))
              = Cardinality(StampedOf(before.archive, "csv")) + 1
         /\ Archived("csv", before.csv)
         /\ result = "ok"
    /\ XlsxMoveDenied =>
         /\ Cardinality(StampedOf(archive, "xlsx"))
              = Cardinality(StampedOf(before.archive, "xlsx")) + 1
         /\ Archived("xlsx", before.xlsx)
         /\ result = "ok"

-----------------------------------------------------------------------------
(* Claims about _retry_get *)

Failed(out) == out # "ok"

\* C17 (as claimed): _retry_get with attempts = n >= 1 issues at most n
\* requests, returns at the first request that succeeds, has waited once
\* after every failed request that another one followed, and raises only
\* when all n requests failed, its error then carrying the cause of the last
\* failed request.
C17_RetryBoundedAndCauseCarried ==
    flow = "retry" =>
        /\ Len(tries) <= attempts
        /\ \A k \in 1..(Len(tries) - 1) : Failed(tries[k])
        /\ Len(sleeps) >= Len(tries) - 1
        /\ pc = "retry_returned" => tries[Len(tries)] = "ok"
        /\ pc = "retry_raised" =>
             /\ Len(tries) = attempts
             /\ \A k \in 1..Len(tries) : Failed(tries[k])
             /\ raised.type # "none"
             /\ raised.cause = tries[Len(tries)]

-----------------------------------------------------------------------------
(* Claims about main of the daily flow *)

\* an exception was raised inside collect_for_dates
CollectionFailed == flow = "daily" /\ exc # "none"

\* C18: when resolving or building a date raises inside collect_for_dates,
\* main handles the exception and returns: write_append_dedupe is never
\* called, nothing is archived, and the working CSV and XLSX stay exactly as
\* the run found them, also when rows of earlier dates had been built.
C18_FailedCollectionLeavesStore ==
    CollectionFailed =>
        /\ pc \in {"raised", "ended"}
        /\ pc = "raised" => ENABLED MainCollectFailed
        /\ runs = 0
        /\ result = "none"
        /\ archive = <<>>
        /\ alts = <<>>
        /\ csv = StoreAtStart
        /\ xlsx = StoreAtStart
        /\ pc = "ended" =>
             log = <<LogStarted, LogCollectFailed, LogEndedFailed>>

\* the second date fails after the rows of the first have been built
C18_Witness ==
    /\ CollectionFailed
    /\ pc = "ended"
    /\ exc = "RuntimeError"
    /\ Len(dates) > 1
    /\ Len(all_rows) = Len(CURRENCIES)
    /\ csv = StoreAtStart

\* main has returned
MainEnded == flow = "daily" /\ pc = "ended"

EndBanners == {LogEndedOk, LogEndedFailed}

-----------------------------------------------------------------------------
(* Claims about the two files of the month-block flow *)

RowSet(f) == {f.rows[i] : i \in 1..Len(f.rows)}

\* merge_and_write has returned having written both target files
BothWritten ==
    /\ flow = "month"
    /\ MergeRan
    /\ result = "ok"
    /\ ~WriteDenied(before.xcond)

\* C20 (as claimed): after merge_and_write has written both target files,
\* the CSV and the XLSX hold the same set of rows, whatever the two files
\* held before the run.
C20_CsvAndXlsxAgree ==
    BothWritten =>
        /\ csv.state = "ok"
        /\ xlsx.state = "ok"
        /\ RowSet(csv) = RowSet(xlsx)

-----------------------------------------------------------------------------
(* Claims about the sanity check of the month-block flow *)

\* fetch_xrates_usd_to_quotes has run on a page with tables of which no row
\* gives a usable rate for a recognized currency
NothingScraped ==
    /\ flow = "month"
    /\ pc # "month_fetch"
    /\ page.status = "tables"
    /\ \A c \in Tracked : UsableRows(c) = {}

\* C21 (as claimed): when the page holds tables but no row yields a usable
\* rate for a recognized currency, fetch_xrates_usd_to_quotes raises
\* ValueError instead of returning a map, so that no month block is built
\* from the defaults of USD and PAB alone.
C21_NoUsableRatesRaises ==
    NothingScraped =>
        /\ pc = "raised"
        /\ exc = "ValueError"
        /\ usd_to = EmptyMap

=============================================================================
